---- MODULE Spec2Model ----
(***************************************************************************)
(* astro-sanity-assets: the integration returned by downloadSanityAssets   *)
(* (src/src/index.ts).  One integration instance, its two hooks            *)
(* (astro:build:start, astro:build:done), the local file system under      *)
(* public/, the backend's answer and the HTTP transfer of every file.      *)
(* SpecLeftover follows a build that was ended half-way into the next      *)
(* build; SpecTwo adds a second instance with a directory of its own.      *)
(*                                                                         *)
(* The build-start hook is an async function: it is cut at its awaits      *)
(* (the query, the hash read, the HTTP request, the write stream's         *)
(* finish), and pc is the hook's position.                                 *)
(***************************************************************************)
EXTENDS Integers, Sequences, FiniteSets, TLC

VARIABLES
    fs,             \* the file system: path -> entry (none, file with its chunks, dir)
    createdFolder,  \* index.ts:112  let createdFolder = false
    proc,           \* the node process: "alive", or "crashed" by an uncaught exception
    pc,             \* position of the build-start hook
    result,         \* how the last build-start promise settled
    assets,         \* index.ts:187  the records the backend returned last
    files,          \* index.ts:189  the descriptors of this run
    i,              \* index of the descriptor the for..of loop is at
    writer,         \* the write stream of the download in progress
    sent,           \* chunks of the response body piped so far
    orphan,         \* a write stream left with a pending error and no listener
    hook,           \* what happened last: "none", "start", "done", "user"
    fsBefore,       \* history: the file system when the last build-start was invoked
    checked,        \* history: descriptors this run called checkIfFileHasNotChanged for
    skipped,        \* history: descriptors this run logged "Skipping" for
    attempted,      \* history: descriptors this run called downloadAsset for
    failed,         \* history: descriptors this run logged "Downloading ... failed" for
    mkdirs,         \* history: calls of createFolder in this run
    inRow,          \* history: the previous hook was a build-start that got a response
    again,          \* history: this run got the same response as the run right before it
    leftover,       \* history (SpecLeftover): the build before this one was ended
                    \* with the directory its build-start had created still there
    createdFolderB  \* index.ts:112 in a second instance (SpecTwo)

vars == <<fs, createdFolder, proc, pc, result, assets, files, i, writer, sent,
          orphan, hook, fsBefore, checked, skipped, attempted, failed, mkdirs,
          inRow, again, leftover, createdFolderB>>

----------------------------------------------------------------------------
(* Bounds *)

\* The longest record sequence the backend returns.
MaxAssets == 2

----------------------------------------------------------------------------
(* JavaScript values *)

\* The value undefined: an absent field of a record.
Undefined == "undefined"

\* JavaScript truthiness of a string-or-undefined value.
Truthy(s) == s # Undefined /\ s # ""

Front(s) == SubSeq(s, 1, Len(s) - 1)

----------------------------------------------------------------------------
(* Configuration of the instance (README: query, directory, no handler) *)

Directory == "downloads"

\* The custom mapper; the modelled instance passes none.
HandlerProp == Undefined

\* The directory of the second instance.
DirectoryB == "videos"

----------------------------------------------------------------------------
(* Paths *)

\* The segments path.resolve splits a relative name into.
Segments(name) ==
    CASE name = "../evil.png"          -> <<"..", "evil.png">>
      [] name = "../videos/abc.png"    -> <<"..", "videos", "abc.png">>
      [] name = "../downloads/abc.png" -> <<"..", "downloads", "abc.png">>
      [] name = ""                     -> <<>>
      [] OTHER                         -> <<name>>

RECURSIVE ResolveFrom(_, _)
ResolveFrom(path, segs) ==
    IF segs = <<>> THEN path
    ELSE LET s == Head(segs)
             next == IF s = ".." THEN (IF path = <<>> THEN path ELSE Front(path))
                     ELSE IF s = "." \/ s = "" THEN path
                     ELSE Append(path, s)
         IN  ResolveFrom(next, Tail(segs))

\* path.resolve(base, name), paths being sequences of segments below the
\* working directory.
Resolve(base, name) == ResolveFrom(base, Segments(name))

\* index.ts:128  resolve("public", directory)
GetFolderPath == ResolveFrom(<<>>, <<"public", Directory>>)

\* index.ts:128 in the second instance.
GetFolderPathB == ResolveFrom(<<>>, <<"public", DirectoryB>>)

\* Whether a path lies inside the staging directory.
Inside(p) ==
    /\ Len(p) > Len(GetFolderPath)
    /\ SubSeq(p, 1, Len(GetFolderPath)) = GetFolderPath

\* The names of the files the model's file system can hold.
KnownNames == {"abc.png", "def.pdf", "keep.txt", "../evil.png",
               "../videos/abc.png", "../downloads/abc.png"}

Paths ==
    {GetFolderPath, GetFolderPathB}
        \cup {Resolve(GetFolderPath, n) : n \in KnownNames}

----------------------------------------------------------------------------
(* File system entries *)

NoEntry  == [kind |-> "none", data |-> <<>>]
DirEntry == [kind |-> "dir", data |-> <<>>]
File(d)  == [kind |-> "file", data |-> d]

\* existsSync
ExistsSync(f, p) == f[p].kind # "none"

\* Whether a file can be opened for writing at p: its parent is a directory
\* (public/ itself always is) and p is no directory.
CanOpen(f, p) ==
    /\ p \in Paths
    /\ f[p].kind # "dir"
    /\ (Front(p) \in Paths => f[Front(p)].kind = "dir")

\* mkdirSync(folderPath, {recursive: true})
MkdirSync(f, p) == [f EXCEPT ![p] = DirEntry]

\* rmSync(folderPath, {recursive: true, force: true})
RmSync(f, p) ==
    [q \in Paths |->
        IF q = p \/ (Len(q) > Len(p) /\ SubSeq(q, 1, Len(p)) = p)
        THEN NoEntry ELSE f[q]]

----------------------------------------------------------------------------
(* Content hashing *)

\* createHash("sha1") ... digest("hex") of a file's bytes (its chunks in order).
Sha1Hex(data) ==
    CASE data = <<>>         -> "da39a3ee5e6b4b0d3255bfef95601890afd80709"
      [] data = <<"A">>      -> "6dcd4ce23d88e2ee9568ba546c007c63d9131c1b"
      [] data = <<"B">>      -> "ae4f281df5a5d0ff3cad6371f76d5c29b6d953ec"
      [] data = <<"A", "B">> -> "06d945942aa26a61be18c3e22bf19bbca8dd2b5d"
      [] OTHER               -> "0000000000000000000000000000000000000000"

----------------------------------------------------------------------------
(* The backend and the remote files *)

UrlA == "https://x/a.png"
UrlB == "https://x/b.pdf"

\* The body a GET of the url streams, as its chunks.
Served(url) == IF url = UrlA THEN <<"A", "B">> ELSE <<"B">>

Asset(u, id, ext, sha) ==
    [url |-> u, assetId |-> id, extension |-> ext, sha1hash |-> sha]

\* The records the backend's answers are made of.
AssetPool ==
    { Asset(UrlA, "abc", "png", Sha1Hex(<<"A", "B">>)),
      Asset(UrlB, "def", "pdf", Undefined),
      Asset(Undefined, "ghi", "png", Undefined),
      Asset(UrlB, "../evil", "png", Sha1Hex(<<"B">>)) }

Responses == UNION {[1..n -> AssetPool] : n \in 0..MaxAssets}

----------------------------------------------------------------------------
(* Record mapper *)

NoFile == [url |-> Undefined, filename |-> Undefined, sha1hash |-> Undefined]

\* Mutant: the extension is not tested.
DefaultHandlerNoExtensionTest(data) ==
    IF Truthy(data.url) /\ Truthy(data.assetId)
    THEN [url |-> data.url,
          filename |-> data.assetId \o "." \o data.extension,
          sha1hash |-> data.sha1hash]
    ELSE NoFile

\* index.ts:116-126  the default handler; NoFile stands for undefined.
DefaultHandler(data) ==
    IF Truthy(data.url) /\ Truthy(data.assetId) /\ Truthy(data.extension)
    THEN [url |-> data.url,
          filename |-> data.assetId \o "." \o data.extension,
          sha1hash |-> data.sha1hash]
    ELSE NoFile

\* index.ts:114-115  handlerProp ?? default
Handler(data) == IF HandlerProp = Undefined THEN DefaultHandler(data) ELSE NoFile

RECURSIVE FilterFiles(_)
FilterFiles(s) ==
    IF s = <<>> THEN <<>>
    ELSE IF Head(s) # NoFile THEN <<Head(s)>> \o FilterFiles(Tail(s))
    ELSE FilterFiles(Tail(s))

\* index.ts:189-192  assets.map(handler).filter(Boolean)
MapFiles(a) == FilterFiles([k \in 1..Len(a) |-> Handler(a[k])])

\* index.ts:161 / 208  resolve(getFolderPath(), filename)
FilePath(file) == Resolve(GetFolderPath, file.filename)

----------------------------------------------------------------------------
(* Initial state *)

\* The staging directory is absent, or it is there already and holds the
\* user's keep.txt and possibly earlier copies of the remote files, or a
\* subdirectory where a remote file is to go.
InitFs ==
    { f \in [Paths -> {NoEntry, DirEntry, File(<<"B">>), File(<<"A", "B">>)}] :
        /\ f[GetFolderPath] \in {NoEntry, DirEntry}
        /\ f[Resolve(GetFolderPath, "abc.png")]
               \in {NoEntry, DirEntry, File(<<"A", "B">>)}
        /\ f[Resolve(GetFolderPath, "def.pdf")] \in {NoEntry, DirEntry, File(<<"B">>)}
        /\ f[Resolve(GetFolderPath, "keep.txt")] \in {NoEntry, File(<<"B">>)}
        /\ f[Resolve(GetFolderPath, "../evil.png")] = NoEntry
        /\ f[GetFolderPathB] = NoEntry
        /\ f[Resolve(GetFolderPathB, "abc.png")] = NoEntry
        /\ \A p \in Paths : Inside(p) /\ f[p] # NoEntry => f[GetFolderPath] = DirEntry
        /\ f[GetFolderPath] = DirEntry => f[Resolve(GetFolderPath, "keep.txt")] # NoEntry }

\* Nothing has run yet: index.ts:112 and the hooks not invoked.
InitRest ==
    /\ createdFolder = FALSE
    /\ proc = "alive"
    /\ result = "none"
    /\ files = <<>>
    /\ i = 0
    /\ writer = "none"
    /\ sent = 0
    /\ orphan = FALSE
    /\ hook = "none"
    /\ fsBefore = fs
    /\ checked = {}
    /\ skipped = {}
    /\ attempted = {}
    /\ failed = {}
    /\ mkdirs = 0
    /\ inRow = FALSE
    /\ again = FALSE
    /\ leftover = FALSE
    /\ createdFolderB = FALSE

Init ==
    /\ fs \in InitFs
    /\ pc = "idle"
    /\ assets = <<>>
    /\ InitRest

----------------------------------------------------------------------------
(* Directory lifecycle *)

\* Mutant: createFolder reports a directory of its own making even when the
\* directory was there.
CreateFolderReturnsTrue(f) == TRUE

\* index.ts:132-144  createFolder: its return value ...
CreateFolderReturns(f) == ~ExistsSync(f, GetFolderPath)

\* Mutant: createFolder makes no directory.
CreateFolderNoMkdir(f) == f

\* ... and the file system it leaves.
CreateFolder(f) ==
    IF ExistsSync(f, GetFolderPath) THEN f ELSE MkdirSync(f, GetFolderPath)

\* index.ts:146-158  deleteFolder: the file system it leaves.
DeleteFolder(f) ==
    IF ~ExistsSync(f, GetFolderPath) THEN f ELSE RmSync(f, GetFolderPath)

----------------------------------------------------------------------------
(* Change detector *)

\* Mutant: the digests are tested for truthiness instead of compared.
SameDigestTruthy(entry, remoteSha1) ==
    Truthy(Sha1Hex(entry.data)) /\ Truthy(remoteSha1)

\* Mutant: the digest is taken in base64, which no hex fingerprint equals.
SameDigestBase64(entry, remoteSha1) ==
    (CASE entry.data = <<>>         -> "2jmj7l5rSw0yVb/vlWAYkK/YBwk="
       [] entry.data = <<"A">>      -> "bc1M4j2I4u6VaLpUbAB8Y9kTHBs="
       [] entry.data = <<"B">>      -> "rk8oHfWl0P88rWNx921cKbbZU+w="
       [] entry.data = <<"A", "B">> -> "BtlFlCqiamG+GMPiK/GbvKjdK10="
       [] OTHER                     -> "") = remoteSha1

\* index.ts:74  sha1 === remoteSha1, for a file that was read to its end.
SameDigest(entry, remoteSha1) == Sha1Hex(entry.data) = remoteSha1

\* Mutant: the test of the fingerprint is dropped.
HasFingerprintAlways(file) == TRUE

\* index.ts:206  if (sha1hash)
HasFingerprint(file) == Truthy(file.sha1hash)

\* Mutant: the test of the empty answer is dropped.
NoAssetsNever(a) == FALSE

\* index.ts:194  if (!assets.length)
NoAssets(a) == Len(a) = 0

----------------------------------------------------------------------------
(* The build-start hook, cut at its awaits *)

\* The hook's promise settles; the instance is idle again.  The open of a
\* file fails within the run that asked for it: a write stream left with its
\* error pending has emitted it by then.
Settle(how) ==
    /\ ~orphan
    /\ pc' = "idle"
    /\ result' = how
    /\ writer' = "none"
    /\ sent' = 0

\* Mutant: the destination is opened only when the response arrives.
StartDownloadOpensLater ==
    /\ attempted' = attempted \cup {i}
    /\ fs' = fs
    /\ writer' = IF CanOpen(fs, FilePath(files[i])) THEN "open" ELSE "openfail"
    /\ sent' = 0
    /\ pc' = "requesting"

\* index.ts:160-169  downloadAsset up to its await: the write stream is
\* created (the file is opened with flag "w": created or truncated; or the
\* open fails and the stream will emit "error"), then the request is issued.
StartDownload ==
    LET p == FilePath(files[i]) IN
    /\ attempted' = attempted \cup {i}
    /\ IF CanOpen(fs, p)
       THEN fs' = [fs EXCEPT ![p] = File(<<>>)] /\ writer' = "open"
       ELSE fs' = fs /\ writer' = "openfail"
    /\ sent' = 0
    /\ pc' = "requesting"

\* The for..of loop moves to the next descriptor.
NextDescriptor ==
    /\ i' = i + 1
    /\ pc' = "loop"
    /\ writer' = "none"
    /\ sent' = 0

\* index.ts:182-187  the hook is invoked: createClient(config) throws, or
\* the query is sent.
BuildStart(configOk) ==
    /\ proc = "alive"
    /\ pc = "idle"
    /\ hook' = "start"
    /\ fsBefore' = fs
    /\ checked' = {} /\ skipped' = {} /\ attempted' = {} /\ failed' = {}
    /\ mkdirs' = 0
    /\ files' = <<>>
    /\ i' = 0
    /\ again' = FALSE
    /\ IF configOk
       THEN pc' = "fetching" /\ result' = "pending" /\ inRow' = inRow
       ELSE pc' = "idle" /\ result' = "ConfigurationError" /\ inRow' = FALSE
    /\ assets' = IF configOk THEN assets ELSE <<>>
    /\ UNCHANGED <<fs, createdFolder, proc, writer, sent, orphan>>

\* Mutant: the staging directory is created before the query is awaited.
FetchRejectAfterCreateFolder ==
    /\ proc = "alive"
    /\ pc = "fetching"
    /\ Settle("FetchError")
    /\ inRow' = FALSE
    /\ assets' = <<>>
    /\ createdFolder' = CreateFolderReturns(fs)
    /\ fs' = CreateFolder(fs)
    /\ mkdirs' = mkdirs + 1
    /\ UNCHANGED <<proc, files, i, orphan, hook, fsBefore, checked, skipped,
                   attempted, failed, again>>

\* index.ts:95, 187  client.fetch rejects: the hook rejects with the error.
FetchReject ==
    /\ proc = "alive"
    /\ pc = "fetching"
    /\ Settle("FetchError")
    /\ inRow' = FALSE
    /\ assets' = <<>>
    /\ UNCHANGED <<fs, createdFolder, proc, files, i, orphan, hook,
                   fsBefore, checked, skipped, attempted, failed, mkdirs, again>>

\* index.ts:187-203  the query answers: map, filter, the empty test,
\* createFolder; the loop is entered.
FetchResolve(a) ==
    /\ proc = "alive"
    /\ pc = "fetching"
    /\ assets' = a
    /\ again' = (inRow /\ a = assets)
    /\ inRow' = TRUE
    /\ files' = MapFiles(a)
    /\ IF NoAssets(a)
       THEN /\ Settle("resolved")
            /\ UNCHANGED <<fs, createdFolder, i, mkdirs>>
       ELSE /\ createdFolder' = CreateFolderReturns(fs)
            /\ fs' = CreateFolder(fs)
            /\ mkdirs' = mkdirs + 1
            /\ i' = 1
            /\ pc' = "loop"
            /\ UNCHANGED <<result, writer, sent>>
    /\ UNCHANGED <<proc, orphan, hook, fsBefore, checked, skipped, attempted, failed>>

\* index.ts:205-220  the head of an iteration, up to its first await; past
\* the last descriptor the hook resolves.
LoopNext ==
    /\ proc = "alive"
    /\ pc = "loop"
    /\ IF i > Len(files)
       THEN /\ Settle("resolved")
            /\ UNCHANGED <<fs, i, checked, attempted>>
       ELSE IF HasFingerprint(files[i])
       THEN /\ checked' = checked \cup {i}
            /\ IF ~ExistsSync(fs, FilePath(files[i]))
               THEN StartDownload /\ UNCHANGED <<i, result>>
               ELSE pc' = "hashing" /\ UNCHANGED <<fs, i, result, writer, sent, attempted>>
       ELSE StartDownload /\ UNCHANGED <<i, result, checked>>
    /\ UNCHANGED <<createdFolder, proc, assets, files, orphan, hook, fsBefore,
                   skipped, failed, mkdirs, inRow, again>>

\* index.ts:69-74, 212-218  the read stream ends: the digests are compared.
HashEnd ==
    /\ proc = "alive"
    /\ pc = "hashing"
    /\ fs[FilePath(files[i])].kind = "file"
    /\ IF SameDigest(fs[FilePath(files[i])], files[i].sha1hash)
       THEN /\ skipped' = skipped \cup {i}
            /\ NextDescriptor
            /\ UNCHANGED <<fs, attempted>>
       ELSE StartDownload /\ UNCHANGED <<i, skipped>>
    /\ UNCHANGED <<createdFolder, proc, result, assets, files, orphan, hook,
                   fsBefore, checked, failed, mkdirs, inRow, again>>

\* Mutant: a read error counts as "changed" and the download goes ahead.
HashErrorTreatedAsChanged ==
    /\ proc = "alive"
    /\ pc = "hashing"
    /\ fs[FilePath(files[i])].kind = "dir"
    /\ StartDownload
    /\ UNCHANGED <<createdFolder, proc, result, assets, files, i, orphan, hook,
                   fsBefore, checked, skipped, failed, mkdirs, inRow, again>>

\* index.ts:63  the read stream errors (the path is a directory: EISDIR):
\* the check rejects and, uncaught in the hook, the hook rejects.
HashError ==
    /\ proc = "alive"
    /\ pc = "hashing"
    /\ fs[FilePath(files[i])].kind = "dir"
    /\ Settle("IOError")
    /\ UNCHANGED <<fs, createdFolder, proc, assets, files, i, orphan, hook,
                   fsBefore, checked, skipped, attempted, failed, mkdirs, inRow, again>>

\* index.ts:165, 220-222  axios rejects (a 404, a connection reset before
\* the response): downloadAsset rejects, the catch logs, the loop goes on.
\* The write stream stays as it is; no "error" listener was attached.
AxiosReject ==
    /\ proc = "alive"
    /\ pc = "requesting"
    /\ failed' = failed \cup {i}
    /\ orphan' = (orphan \/ writer = "openfail")
    /\ NextDescriptor
    /\ UNCHANGED <<fs, createdFolder, proc, result, assets, files, hook, fsBefore,
                   checked, skipped, attempted, mkdirs, inRow, again>>

\* Mutant: the download is not awaited; the loop moves on when the response
\* arrives, while the body is still to be written.
AxiosResolveNotAwaited ==
    /\ proc = "alive"
    /\ pc = "requesting"
    /\ NextDescriptor
    /\ UNCHANGED <<fs, createdFolder, proc, result, assets, files, orphan, hook,
                   fsBefore, checked, skipped, attempted, failed, mkdirs, inRow, again>>

\* index.ts:165-176  the response arrives: pipe, then the listeners.
AxiosResolve ==
    /\ proc = "alive"
    /\ pc = "requesting"
    /\ pc' = "piping"
    /\ UNCHANGED <<fs, createdFolder, proc, result, assets, files, i, writer, sent,
                   orphan, hook, fsBefore, checked, skipped, attempted, failed,
                   mkdirs, inRow, again>>

\* index.ts:163  the write stream emits "error" while the hook awaits axios:
\* no listener is attached yet, the error is thrown uncaught.
WriterErrorUnheard ==
    /\ proc = "alive"
    /\ \/ pc = "requesting" /\ writer = "openfail"
       \/ orphan
    /\ proc' = "crashed"
    /\ UNCHANGED <<fs, createdFolder, pc, result, assets, files, i, writer, sent,
                   orphan, hook, fsBefore, checked, skipped, attempted, failed,
                   mkdirs, inRow, again>>

\* index.ts:171  a chunk of the body is written to the file (to no visible
\* file when the open file was removed meanwhile).
PipeChunk ==
    /\ proc = "alive"
    /\ pc = "piping"
    /\ writer = "open"
    /\ sent < Len(Served(files[i].url))
    /\ fs' = IF fs[FilePath(files[i])].kind = "file"
             THEN [fs EXCEPT ![FilePath(files[i])] =
                      File(@.data \o <<Served(files[i].url)[sent + 1]>>)]
             ELSE fs
    /\ sent' = sent + 1
    /\ UNCHANGED <<createdFolder, proc, pc, result, assets, files, i, writer,
                   orphan, hook, fsBefore, checked, skipped, attempted, failed,
                   mkdirs, inRow, again>>

\* index.ts:174  the body ended and the write stream flushed: "finish".
WriterFinish ==
    /\ proc = "alive"
    /\ pc = "piping"
    /\ writer = "open"
    /\ sent = Len(Served(files[i].url))
    /\ NextDescriptor
    /\ UNCHANGED <<fs, createdFolder, proc, result, assets, files, orphan, hook,
                   fsBefore, checked, skipped, attempted, failed, mkdirs, inRow, again>>

\* index.ts:175, 220-222  the write stream emits "error" with the listener
\* attached (the failed open, or a write error): reject, catch, go on.
WriterError ==
    /\ proc = "alive"
    /\ pc = "piping"
    /\ failed' = failed \cup {i}
    /\ NextDescriptor
    /\ UNCHANGED <<fs, createdFolder, proc, result, assets, files, orphan, hook,
                   fsBefore, checked, skipped, attempted, mkdirs, inRow, again>>

\* index.ts:171  the response stream errors after piping began (the
\* connection is reset in mid-body).  pipe() forwards no error and nothing
\* listens on the response: either the error is dropped and the write stream
\* never finishes (the promise stays pending), or it is thrown uncaught.
SourceError(thrown) ==
    /\ proc = "alive"
    /\ pc = "piping"
    /\ sent < Len(Served(files[i].url))
    /\ IF thrown
       THEN proc' = "crashed" /\ pc' = pc
       ELSE proc' = proc /\ pc' = "hung"
    /\ UNCHANGED <<fs, createdFolder, result, assets, files, i, writer, sent,
                   orphan, hook, fsBefore, checked, skipped, attempted, failed,
                   mkdirs, inRow, again>>

----------------------------------------------------------------------------
(* The build-done hook *)

\* index.ts:225-229
BuildDone ==
    /\ proc = "alive"
    /\ pc = "idle"
    /\ fs' = IF createdFolder THEN DeleteFolder(fs) ELSE fs
    /\ hook' = "done"
    /\ inRow' = FALSE
    /\ assets' = <<>>
    /\ UNCHANGED <<createdFolder, proc, pc, result, files, i, writer, sent,
                   orphan, fsBefore, checked, skipped, attempted, failed, mkdirs, again>>

----------------------------------------------------------------------------
(* The host *)

\* The build process ends (it exits, crashes or is killed) and a later build
\* constructs the integration anew: index.ts:112.
Restart ==
    /\ \/ proc = "crashed"
       \/ pc # "idle"
       \/ hook # "none"
    /\ proc' = "alive"
    /\ pc' = "idle"
    /\ createdFolder' = FALSE
    /\ result' = "none"
    /\ assets' = <<>>
    /\ files' = <<>>
    /\ i' = 0
    /\ writer' = "none"
    /\ sent' = 0
    /\ orphan' = FALSE
    /\ hook' = "none"
    /\ fsBefore' = fs
    /\ checked' = {} /\ skipped' = {} /\ attempted' = {} /\ failed' = {}
    /\ mkdirs' = 0
    /\ inRow' = FALSE
    /\ again' = FALSE
    /\ UNCHANGED fs

\* README:54  between two hooks the user puts a directory of their own,
\* holding keep.txt, where the staging directory is configured.
UserCreatesFolder ==
    /\ proc = "alive"
    /\ pc = "idle"
    /\ ~ExistsSync(fs, GetFolderPath)
    /\ fs' = [fs EXCEPT ![GetFolderPath] = DirEntry,
                        ![Resolve(GetFolderPath, "keep.txt")] = File(<<"B">>)]
    /\ hook' = "user"
    /\ inRow' = FALSE
    /\ assets' = <<>>
    /\ UNCHANGED <<createdFolder, proc, pc, result, files, i, writer, sent,
                   orphan, fsBefore, checked, skipped, attempted, failed, mkdirs, again>>

----------------------------------------------------------------------------

\* One instance: there is no second one, and no build is followed into the
\* next.
Alone == UNCHANGED <<leftover, createdFolderB>>

Next ==
    \/ \E ok \in BOOLEAN : BuildStart(ok) /\ Alone
    \/ FetchReject /\ Alone
    \/ \E a \in Responses : FetchResolve(a) /\ Alone
    \/ LoopNext /\ Alone
    \/ HashEnd /\ Alone
    \/ HashError /\ Alone
    \/ AxiosReject /\ Alone
    \/ AxiosResolve /\ Alone
    \/ WriterErrorUnheard /\ Alone
    \/ PipeChunk /\ Alone
    \/ WriterFinish /\ Alone
    \/ WriterError /\ Alone
    \/ \E thrown \in BOOLEAN : SourceError(thrown) /\ Alone
    \/ BuildDone /\ Alone
    \/ UserCreatesFolder /\ Alone
    \/ Restart /\ Alone

Spec == Init /\ [][Next]_vars

----------------------------------------------------------------------------
(* Vocabulary of the properties *)

\* The staging directory and what lies in it.
StagingPaths == {p \in Paths : p = GetFolderPath \/ Inside(p)}

\* The last build-start got the backend's answer (it is in its loop, or it
\* settled after it).
RunFetched ==
    /\ hook = "start"
    /\ \/ pc \in {"loop", "hashing", "requesting", "piping", "hung"}
       \/ pc = "idle" /\ result \in {"resolved", "IOError"}

\* The descriptors the loop of this run has come to.
Processed == checked \cup attempted

\* A step of the running build-start hook out of position `at`.
HookLeaves(at) == pc = at /\ pc' # at /\ hook' = "start"

\* The local file of descriptor k holds exactly the bytes its fingerprint names.
Fresh(f, file) ==
    /\ f[FilePath(file)].kind = "file"
    /\ Sha1Hex(f[FilePath(file)].data) = file.sha1hash

----------------------------------------------------------------------------
(* C1 *)

\* C1: for one run (build-start, then build-end on the same instance), after
\* build-end the staging directory is absent if and only if it was absent
\* before that build-start; if it was there before, it and every file that
\* was in it are still there, unchanged.
C1_StagingRemovedIffAbsentBefore ==
    [][ (hook = "start" /\ result = "resolved" /\ hook' = "done") =>
          /\ ~ExistsSync(fs', GetFolderPath) <=> ~ExistsSync(fsBefore, GetFolderPath)
          /\ ExistsSync(fsBefore, GetFolderPath) =>
                \A p \in StagingPaths :
                    ExistsSync(fsBefore, p) => fs'[p] = fsBefore[p] ]_vars

----------------------------------------------------------------------------
(* C2 *)

\* C2: a failing download never aborts the batch and never makes build-start
\* fail: the hook neither dies of the error nor stays pending, and once it has
\* settled every descriptor after a failed one has been checked or downloaded.
C2_PartialFailureIsolation ==
    hook = "start" =>
        /\ proc = "alive"
        /\ pc # "hung"
        /\ pc = "idle" /\ result = "resolved" =>
              \A k \in failed : \A j \in (k + 1)..Len(files) : j \in Processed

----------------------------------------------------------------------------
(* C3 *)

\* C3 as claimed: for a descriptor with a fingerprint, the download is skipped
\* when the local file exists and its SHA-1 hex digest equals the fingerprint,
\* and in every other case a download is attempted.
C3_SkipIffDigestMatches ==
    [][ /\ (HookLeaves("loop") /\ i <= Len(files) /\ Truthy(files[i].sha1hash)
              /\ ~ExistsSync(fs, FilePath(files[i])))
            => i \in attempted'
        /\ HookLeaves("hashing") =>
              IF Fresh(fs, files[i])
              THEN i \notin attempted' /\ i \in skipped' /\ i' = i + 1
              ELSE i \in attempted' ]_vars

\* C3 as amended: ... and in every other case in which the local file can be
\* read (it is missing, or its digest differs, a zero-length file included) a
\* download is attempted; when something that is no readable file is at the
\* path (a directory), no download is attempted and build-start rejects with
\* the read error.
C3_SkipIffDigestMatchesOrReadFails ==
    [][ /\ (HookLeaves("loop") /\ i <= Len(files) /\ Truthy(files[i].sha1hash)
              /\ ~ExistsSync(fs, FilePath(files[i])))
            => i \in attempted' /\ i \notin skipped'
        /\ HookLeaves("hashing") =>
              IF Fresh(fs, files[i])
              THEN i \notin attempted' /\ i \in skipped' /\ i' = i + 1
              ELSE IF fs[FilePath(files[i])].kind = "file"
              THEN i \in attempted' /\ i \notin skipped'
              ELSE i \notin attempted' /\ pc' = "idle" /\ result' = "IOError" ]_vars

\* Witness of C3: in one run a descriptor was skipped on a matching digest and
\* another, whose local file was zero-length, was checked and downloaded.
C3_Witness ==
    /\ RunFetched
    /\ \E k \in skipped : Fresh(fs, files[k]) /\ k \notin attempted
    /\ \E k \in checked \cap attempted :
          fsBefore[FilePath(files[k])] = File(<<>>)

----------------------------------------------------------------------------
(* C4 *)

\* C4: for a descriptor without a fingerprint the change detector is never
\* invoked and its download is always attempted, whether or not a local file
\* exists.
C4_NoFingerprintAlwaysDownloads ==
    /\ [](\A k \in checked : Truthy(files[k].sha1hash))
    /\ [][ (HookLeaves("loop") /\ i <= Len(files) /\ ~Truthy(files[i].sha1hash))
            => /\ checked' = checked
               /\ i \in attempted'
               /\ pc' = "requesting" ]_vars

\* Witness of C4: a descriptor without a fingerprint whose local file existed
\* when the run began was downloaded without a check.
C4_Witness ==
    /\ RunFetched
    /\ \E k \in attempted \ checked :
          /\ ~Truthy(files[k].sha1hash)
          /\ fsBefore[FilePath(files[k])].kind = "file"

----------------------------------------------------------------------------
(* C5 *)

\* C5: when no record of the backend's answer maps to a descriptor (the
\* answer may be non-empty), build-start never creates the staging directory
\* and attempts no download.
C5_NoDescriptorNoDirectory ==
    (RunFetched /\ \A k \in 1..Len(assets) : DefaultHandler(assets[k]) = NoFile) =>
        /\ mkdirs = 0
        /\ attempted = {}
        /\ (~ExistsSync(fsBefore, GetFolderPath) => ~ExistsSync(fs, GetFolderPath))

----------------------------------------------------------------------------
(* C6 *)

\* C6 as claimed: build-start run twice in a row on one instance, with the
\* same answer of the backend and the local files untouched in between,
\* attempts no download and meets no error in the second run.
C6_SecondRunDownloadsNothing ==
    (hook = "start" /\ again) =>
        /\ attempted = {}
        /\ failed = {}
        /\ result \in {"pending", "resolved"}
        /\ proc = "alive"
        /\ pc # "hung"

\* Every descriptor of the run carries a fingerprint and, when the run began,
\* its local file held exactly the bytes that fingerprint names.
AllFreshBefore ==
    \A k \in 1..Len(files) :
        Truthy(files[k].sha1hash) /\ Fresh(fsBefore, files[k])

\* C6 as amended: ... provided every descriptor carries a fingerprint and the
\* first run left, at each descriptor's path, a file whose SHA-1 hex digest
\* equals it; the second run then skips every descriptor.
C6_SecondRunDownloadsNothingWhenFresh ==
    (hook = "start" /\ again /\ AllFreshBefore) =>
        /\ attempted = {}
        /\ failed = {}
        /\ result \in {"pending", "resolved"}
        /\ proc = "alive"
        /\ pc # "hung"
        /\ (pc = "idle" => skipped = 1..Len(files))

\* Witness of C6: a second run in a row, with the same answer of two
\* descriptors for two files, that has resolved having skipped both.
C6_Witness ==
    /\ hook = "start" /\ again /\ AllFreshBefore
    /\ pc = "idle" /\ result = "resolved"
    /\ Len(files) = 2
    /\ files[1].filename # files[2].filename
    /\ skipped = 1..Len(files)

----------------------------------------------------------------------------
(* C7 *)

\* C7: when the client cannot be constructed or the query fails, build-start
\* rejects with that error and, in that run, the staging directory is not
\* created and no hash check and no download is attempted.
C7_FetchFailureIsFatal ==
    (hook = "start" /\ result \in {"ConfigurationError", "FetchError"}) =>
        /\ pc = "idle"
        /\ mkdirs = 0
        /\ checked = {}
        /\ attempted = {}
        /\ fs = fsBefore

\* Witness of C7: the query failed while the staging directory was absent.
C7_Witness ==
    /\ hook = "start"
    /\ result = "FetchError"
    /\ ~ExistsSync(fs, GetFolderPath)

----------------------------------------------------------------------------
(* C8 *)

\* C8: every call of the download operation settles: resolved on "finish",
\* rejected with the error on any write-stream or transport error whenever it
\* is emitted; it never stays pending for ever and the error never escapes
\* uncaught.
C8_DownloadAlwaysSettles ==
    attempted # {} => pc # "hung" /\ proc # "crashed"

----------------------------------------------------------------------------
(* C9 *)

\* C9: every path build-start hashes or writes resolves inside the staging
\* directory.
C9_PathsStayInsideStaging ==
    \A k \in Processed : Inside(FilePath(files[k]))

----------------------------------------------------------------------------
(* C10: the default mapper on its own *)

\* The records the mapper is applied to: every field absent, empty or set.
RecordUniverse ==
    { Asset(u, id, ext, sha) :
        u \in {Undefined, "", UrlA},
        id \in {Undefined, "", "abc", "../evil"},
        ext \in {Undefined, "", "png"},
        sha \in {Undefined, "", Sha1Hex(<<"A", "B">>)} }

MapperInit ==
    /\ fs = [p \in Paths |-> NoEntry]
    /\ pc = "mapping"
    /\ assets \in {<<r>> : r \in RecordUniverse}
    /\ InitRest

\* index.ts:189-192 applied to the answer.
MapRecords ==
    /\ pc = "mapping"
    /\ files' = MapFiles(assets)
    /\ pc' = "mapped"
    /\ UNCHANGED <<fs, createdFolder, proc, result, assets, i, writer, sent,
                   orphan, hook, fsBefore, checked, skipped, attempted, failed,
                   mkdirs, inRow, again>>

MapperNext == MapRecords /\ Alone

SpecMapper == MapperInit /\ [][MapperNext]_vars

\* C10: the default mapper yields a descriptor exactly for a record with a
\* non-empty url, assetId and extension; the descriptor has the record's url,
\* the filename <assetId>.<extension> and the record's sha1hash; any other
\* record is dropped.
C10_DefaultMapper ==
    pc = "mapped" =>
        LET r == assets[1]
            NonEmpty(v) == v # Undefined /\ v # ""
        IN  IF NonEmpty(r.url) /\ NonEmpty(r.assetId) /\ NonEmpty(r.extension)
            THEN files = << [url |-> r.url,
                             filename |-> r.assetId \o "." \o r.extension,
                             sha1hash |-> r.sha1hash] >>
            ELSE files = <<>>

\* Witness of C10: a record with all three fields and a sha1hash was mapped.
C10_Witness ==
    /\ pc = "mapped"
    /\ files = << [url |-> UrlA, filename |-> "abc.png",
                   sha1hash |-> Sha1Hex(<<"A", "B">>)] >>

----------------------------------------------------------------------------
(* C11 *)

\* The descriptors are the mapped records, in the order of the records.
InRecordOrder ==
    \E f \in [1..Len(files) -> 1..Len(assets)] :
        /\ \A a, b \in 1..Len(files) : a < b => f[a] < f[b]
        /\ \A k \in 1..Len(files) : files[k] = Handler(assets[f[k]])

\* The download of descriptor i has written the whole body and finishes.
DownloadComplete ==
    /\ i \in attempted
    /\ pc = "piping"
    /\ writer = "open"
    /\ fs[FilePath(files[i])] = File(Served(files[i].url))

\* C11: within one build-start the descriptors are processed strictly one
\* after the other and in the order of the backend's records: a hash check or
\* a download begins only for the descriptor the loop stands at, with every
\* earlier descriptor begun before it and nothing else in progress, and the
\* loop leaves a descriptor, for the very next one, only when that descriptor
\* has been skipped, has failed or has been downloaded to its end.
C11_StrictlySequential ==
    /\ [](RunFetched => InRecordOrder /\ Processed \subseteq 1..i)
    /\ [][ (pc \notin {"idle", "fetching"} /\ hook' = "start") =>
             /\ (checked' # checked \/ attempted' # attempted) =>
                   /\ pc \in {"loop", "hashing"}
                   /\ i' = i
                   /\ Processed' = Processed \cup {i}
                   /\ \A k \in 1..(i - 1) : k \in Processed
             /\ i' # i =>
                   /\ i' = i + 1
                   /\ pc' = "loop"
                   /\ i \in skipped' \/ i \in failed' \/ DownloadComplete ]_vars

\* Witness of C11: the second of two descriptors is being downloaded after
\* the first one was downloaded to its end.
C11_Witness ==
    /\ RunFetched
    /\ Len(files) = 2
    /\ i = 2
    /\ pc = "piping"
    /\ 1 \in attempted \ failed
    /\ fs[FilePath(files[1])] = File(Served(files[1].url))
    /\ files[1].filename # files[2].filename

----------------------------------------------------------------------------
(* C12 *)

\* C12: over any sequence of build-start and build-end hooks on one instance
\* (runs with an empty answer or a failed query included), whenever build-end
\* reads the flag as true, the staging directory did not exist before the
\* most recent build-start and that build-start created it; so build-end
\* never deletes a directory that existed before the most recent build-start.
C12_FlagTrueOnlyForOwnDirectory ==
    [][ (proc = "alive" /\ pc = "idle" /\ hook = "start" /\ hook' = "done") =>
          /\ createdFolder =>
                /\ ~ExistsSync(fsBefore, GetFolderPath)
                /\ mkdirs = 1
          /\ ExistsSync(fsBefore, GetFolderPath) => ExistsSync(fs', GetFolderPath) ]_vars

----------------------------------------------------------------------------
(* C13 *)

\* C13: a read error while the local file is hashed is never taken for
\* "changed": no download is attempted for that descriptor, nothing is
\* written, and build-start rejects with the error, the descriptors after it
\* left alone.
C13_ReadErrorRejects ==
    /\ [][ (HookLeaves("hashing") /\ fs[FilePath(files[i])].kind # "file") =>
             /\ attempted' = attempted
             /\ fs' = fs
             /\ pc' = "idle"
             /\ result' = "IOError" ]_vars
    /\ []((hook = "start" /\ result = "IOError") =>
             /\ pc = "idle"
             /\ i \in checked \ (attempted \cup skipped)
             /\ Processed \subseteq 1..i)

\* Witness of C13: the check of the first of two descriptors met a read
\* error; build-start has rejected and the second was never come to.
C13_Witness ==
    /\ hook = "start"
    /\ pc = "idle"
    /\ result = "IOError"
    /\ Len(files) = 2
    /\ i = 1
    /\ ExistsSync(fs, FilePath(files[1]))
    /\ Processed = {1}
    /\ attempted = {}

----------------------------------------------------------------------------
(* C14: a build ended half-way, followed into the next build *)

\* The build-start of this build created the staging directory and its
\* build-end has not run.
TerminatedWithDirectory ==
    /\ hook = "start"
    /\ mkdirs = 1
    /\ createdFolder
    /\ ExistsSync(fs, GetFolderPath)

\* The steps of Next; `leftover` is set when the process ends with the
\* directory of its own making in place, and lasts for the first run (one
\* build-start, then build-end) of the instance constructed next.
NextLeftover ==
    \/ \E ok \in BOOLEAN :
          /\ BuildStart(ok)
          /\ leftover' = (leftover /\ hook = "none")
          /\ UNCHANGED createdFolderB
    \/ FetchReject /\ Alone
    \/ \E a \in Responses : FetchResolve(a) /\ Alone
    \/ LoopNext /\ Alone
    \/ HashEnd /\ Alone
    \/ HashError /\ Alone
    \/ AxiosReject /\ Alone
    \/ AxiosResolve /\ Alone
    \/ WriterErrorUnheard /\ Alone
    \/ PipeChunk /\ Alone
    \/ WriterFinish /\ Alone
    \/ WriterError /\ Alone
    \/ \E thrown \in BOOLEAN : SourceError(thrown) /\ Alone
    \/ BuildDone /\ Alone
    \/ UserCreatesFolder /\ Alone
    \/ /\ Restart
       /\ leftover' = TerminatedWithDirectory
       /\ UNCHANGED createdFolderB

SpecLeftover == Init /\ [][NextLeftover]_vars

\* C14 as claimed: when a build is ended after its build-start created the
\* staging directory and before its build-end ran, then after the next
\* complete run (build-start, then build-end, on a fresh instance) the
\* leftover directory no longer exists.
C14_LeftoverRemovedByNextRun ==
    (leftover /\ hook = "done" /\ result = "resolved") =>
        ~ExistsSync(fs, GetFolderPath)

\* C14 as amended: ... the next run does not clean the leftover directory up:
\* its build-start finds the directory there, so createFolder returns false
\* and the flag of the fresh instance stays false, and its build-end leaves
\* the directory; after the next complete run the leftover directory still
\* exists.
C14_LeftoverStaysAfterNextRun ==
    leftover =>
        /\ ExistsSync(fs, GetFolderPath)
        /\ ~createdFolder
        /\ (hook = "done" /\ result = "resolved") =>
              ExistsSync(fsBefore, GetFolderPath)

\* Witness of C14: the run after an ended build has downloaded and its
\* build-end has run; the leftover directory is still there.
C14_Witness ==
    /\ leftover
    /\ hook = "done"
    /\ result = "resolved"
    /\ attempted # {}
    /\ ExistsSync(fs, GetFolderPath)

----------------------------------------------------------------------------
(* C15 *)

\* C15: when the backend's answer is the empty sequence, build-start ends
\* (it resolves) without creating the staging directory and without any hash
\* check or download, and leaves the created flag and the file system as they
\* were.
C15_EmptyAnswerChangesNothing ==
    /\ [][ (pc = "fetching" /\ hook' = "start" /\ inRow' /\ assets' = <<>>) =>
             /\ pc' = "idle"
             /\ result' = "resolved"
             /\ fs' = fs
             /\ createdFolder' = createdFolder
             /\ mkdirs' = 0
             /\ checked' = {}
             /\ attempted' = {} ]_vars
    /\ []((hook = "start" /\ inRow /\ assets = <<>>) =>
             /\ fs = fsBefore
             /\ mkdirs = 0
             /\ Processed = {})

\* Witness of C15: build-start has resolved on an empty answer with the
\* staging directory absent, as it was.
C15_Witness ==
    /\ hook = "start"
    /\ inRow
    /\ assets = <<>>
    /\ pc = "idle"
    /\ result = "resolved"
    /\ ~ExistsSync(fs, GetFolderPath)
    /\ fs = fsBefore

----------------------------------------------------------------------------
(* C16 *)

\* The hook is in its loop over the descriptors.
InLoop == pc \in {"loop", "hashing", "requesting", "piping", "hung"}

\* C16: in every build-start that reaches the loop over the descriptors,
\* createFolder runs exactly once and before the first hash check or
\* download; its result is recorded in the created flag; it returns true and
\* creates the directory exactly when the directory did not exist (false and
\* no change when it did); so the staging directory exists whenever a hash
\* check or a download of that run begins.
C16_DirectoryCreatedOnceBeforeLoop ==
    /\ [][ (pc = "fetching" /\ pc' = "loop") =>
             /\ mkdirs' = 1
             /\ Processed' = {}
             /\ createdFolder' = ~ExistsSync(fs, GetFolderPath)
             /\ fs' = IF ExistsSync(fs, GetFolderPath) THEN fs
                      ELSE [fs EXCEPT ![GetFolderPath] = DirEntry] ]_vars
    /\ [](InLoop =>
             /\ mkdirs = 1
             /\ createdFolder = ~ExistsSync(fsBefore, GetFolderPath)
             /\ ExistsSync(fs, GetFolderPath))
    /\ []((hook = "start" /\ Processed # {}) => mkdirs = 1)

\* Witness of C16: the second descriptor's download has begun in a run whose
\* one call of createFolder made the directory.
C16_Witness ==
    /\ pc = "requesting"
    /\ i = 2
    /\ mkdirs = 1
    /\ createdFolder
    /\ ~ExistsSync(fsBefore, GetFolderPath)
    /\ ExistsSync(fs, GetFolderPath)

----------------------------------------------------------------------------
(* C17: two instances, each with a directory of its own *)

\* The records the two instances' backends answer with.
PoolTwo ==
    { Asset(UrlA, "abc", "png", Sha1Hex(<<"A", "B">>)),
      Asset(UrlB, "../videos/abc", "png", Undefined),
      Asset(UrlB, "../downloads/abc", "png", Undefined) }

ResponsesTwo == {<<>>} \cup {<<r>> : r \in PoolTwo}

\* index.ts:161 / 208 in the second instance.
FilePathB(file) == Resolve(GetFolderPathB, file.filename)

\* index.ts:205-223 in the second instance: the loop over the descriptors,
\* every transfer running to its end; a read error ends the loop.
RECURSIVE StageAllB(_, _)
StageAllB(f, fl) ==
    IF fl = <<>> THEN f
    ELSE LET file == Head(fl)
             p == FilePathB(file)
             downloaded == IF CanOpen(f, p)
                           THEN [f EXCEPT ![p] = File(Served(file.url))]
                           ELSE f
         IN  IF HasFingerprint(file) /\ ExistsSync(f, p)
             THEN IF f[p].kind # "file" THEN f
                  ELSE IF SameDigest(f[p], file.sha1hash)
                  THEN StageAllB(f, Tail(fl))
                  ELSE StageAllB(downloaded, Tail(fl))
             ELSE StageAllB(downloaded, Tail(fl))

\* index.ts:182-224  the build-start hook of the second instance, in one step.
BuildStartB(a) ==
    /\ proc = "alive"
    /\ IF NoAssets(a)
       THEN UNCHANGED <<fs, createdFolderB>>
       ELSE /\ createdFolderB' = ~ExistsSync(fs, GetFolderPathB)
            /\ fs' = StageAllB(IF ExistsSync(fs, GetFolderPathB) THEN fs
                               ELSE MkdirSync(fs, GetFolderPathB),
                               MapFiles(a))
    /\ UNCHANGED <<createdFolder, proc, pc, result, assets, files, i, writer, sent,
                   orphan, hook, fsBefore, checked, skipped, attempted, failed,
                   mkdirs, inRow, again, leftover>>

\* index.ts:225-229  the build-done hook of the second instance.
BuildDoneB ==
    /\ proc = "alive"
    /\ fs' = IF createdFolderB /\ ExistsSync(fs, GetFolderPathB)
             THEN RmSync(fs, GetFolderPathB)
             ELSE fs
    /\ UNCHANGED <<createdFolder, proc, pc, result, assets, files, i, writer, sent,
                   orphan, hook, fsBefore, checked, skipped, attempted, failed,
                   mkdirs, inRow, again, leftover, createdFolderB>>

\* The hooks of the first instance, step by step ...
HooksA ==
    \/ \E ok \in BOOLEAN : BuildStart(ok)
    \/ FetchReject
    \/ \E a \in ResponsesTwo : FetchResolve(a)
    \/ LoopNext
    \/ HashEnd
    \/ HashError
    \/ AxiosReject
    \/ AxiosResolve
    \/ WriterErrorUnheard
    \/ PipeChunk
    \/ WriterFinish
    \/ WriterError
    \/ \E thrown \in BOOLEAN : SourceError(thrown)
    \/ BuildDone

\* ... and those of the second.
HooksB ==
    \/ \E a \in ResponsesTwo : BuildStartB(a)
    \/ BuildDoneB

\* Both instances live in one process; a new build constructs both anew.
NextTwo ==
    \/ \E ok \in BOOLEAN : BuildStart(ok) /\ Alone
    \/ FetchReject /\ Alone
    \/ \E a \in ResponsesTwo : FetchResolve(a) /\ Alone
    \/ LoopNext /\ Alone
    \/ HashEnd /\ Alone
    \/ HashError /\ Alone
    \/ AxiosReject /\ Alone
    \/ AxiosResolve /\ Alone
    \/ WriterErrorUnheard /\ Alone
    \/ PipeChunk /\ Alone
    \/ WriterFinish /\ Alone
    \/ WriterError /\ Alone
    \/ \E thrown \in BOOLEAN : SourceError(thrown) /\ Alone
    \/ BuildDone /\ Alone
    \/ \E a \in ResponsesTwo : BuildStartB(a)
    \/ BuildDoneB
    \/ Restart /\ createdFolderB' = FALSE /\ UNCHANGED leftover

SpecTwo == Init /\ [][NextTwo]_vars

\* The second instance's staging directory and what lies in it.
StagingPathsB ==
    {p \in Paths : SubSeq(p, 1, Len(GetFolderPathB)) = GetFolderPathB}

\* C17: for two instances with two different, non-nested directories, under
\* any interleaving of their hooks, a hook of one instance never changes the
\* other instance's created flag and never creates, deletes or writes into
\* the other instance's staging directory.
C17_InstancesIndependent ==
    [][ /\ HooksA =>
              /\ createdFolderB' = createdFolderB
              /\ \A p \in StagingPathsB : fs'[p] = fs[p]
        /\ HooksB =>
              /\ createdFolder' = createdFolder
              /\ \A p \in StagingPaths : fs'[p] = fs[p] ]_vars

----------------------------------------------------------------------------
(* C18 *)

\* The descriptors' filenames are pairwise distinct.
DistinctFilenames ==
    \A a, b \in 1..Len(files) : a # b => files[a].filename # files[b].filename

\* C18: if build-start created the staging directory in this run and the
\* descriptors' filenames are pairwise distinct, no descriptor is skipped in
\* that run: a download is attempted for every descriptor, with or without a
\* fingerprint.
C18_CreatedDirectoryMeansNoSkip ==
    (RunFetched /\ mkdirs = 1 /\ createdFolder /\ DistinctFilenames) =>
        /\ skipped = {}
        /\ (pc = "idle" /\ result = "resolved") => attempted = 1..Len(files)

----------------------------------------------------------------------------
(* C19 *)

\* C19 as claimed: downloadAsset opens the destination for writing (creating
\* the file, or truncating the one that is there) before the request is
\* issued; so after a download whose request fails a file exists at the
\* destination path, and what it held before the attempt is lost.
C19_FailedRequestLeavesFile ==
    [][ (pc = "requesting" /\ hook' = "start" /\ i \in failed') =>
          fs'[FilePath(files[i])] = File(<<>>) ]_vars

\* C19 as amended: ... so after a download whose request fails, if the
\* destination could be opened (its directory exists and no directory is at
\* the path), a file exists at the destination path and it is empty, what it
\* held before being lost; if the destination could not be opened, nothing is
\* created or changed at the path.
C19_FailedRequestLeavesEmptyFile ==
    /\ [][ (pc \in {"loop", "hashing"} /\ pc' = "requesting") =>
             IF CanOpen(fs, FilePath(files[i]))
             THEN fs'[FilePath(files[i])] = File(<<>>)
             ELSE fs' = fs /\ ~(fs[FilePath(files[i])].kind = "file") ]_vars
    /\ [][ (pc = "requesting" /\ hook' = "start" /\ i \in failed') =>
             /\ fs' = fs
             /\ writer = "open" => fs'[FilePath(files[i])] = File(<<>>) ]_vars

\* Witness of C19: a request has failed for a descriptor whose local file
\* held bytes when the run began; the file is there and is empty.
C19_Witness ==
    /\ RunFetched
    /\ \E k \in failed :
          /\ fsBefore[FilePath(files[k])].kind = "file"
          /\ fsBefore[FilePath(files[k])].data # <<>>
          /\ fs[FilePath(files[k])] = File(<<>>)

====
